---- MODULE Spec2Model ----
(***************************************************************************)
(* Yedu (src/index.tsx): the App component's state, its event handlers and *)
(* the asynchronous continuations of handleFileSelect and handleGenerate.  *)
(*                                                                         *)
(* A JavaScript string is a sequence of tokens (<<>> is the empty string); *)
(* the value undefined and a value that is not a string are two reserved   *)
(* one-token sequences.  currentAnalysis is <<>> for null and <<r>> for    *)
(* the entry r.  An async handler invocation is an element of ops; it      *)
(* carries the values of the render it was created in (its closure), which *)
(* are what the code after an await reads.                                 *)
(***************************************************************************)
EXTENDS Integers, Sequences, FiniteSets, TLC

VARIABLES view, isLoading, currentAnalysis,
          sourceText, analysisLens, customDirectives, visualTheme,
          library, isRefineModalOpen, refineDirectives,
          storage, ops, now, issued, alert, mounted

vars == <<view, isLoading, currentAnalysis,
          sourceText, analysisLens, customDirectives, visualTheme,
          library, isRefineModalOpen, refineDirectives,
          storage, ops, now, issued, alert, mounted>>

formVars == <<sourceText, analysisLens, customDirectives, visualTheme>>

(* ---------------------------- bounds ----------------------------------- *)
\* async handler invocations that may be in flight at once
MaxOps == 2
\* async handler invocations started in one behaviour
MaxIssued == 2
\* largest reading of the clock (new Date()), in ms since the page loaded
MaxClock == 2

(* ---------------------------- values ----------------------------------- *)
Undefined == <<"\\undefined">>
NotAString == <<"\\object">>
EmptyString == <<>>

IsString(v) == v # Undefined /\ v # NotAString
\* JavaScript truthiness of a string-or-undefined value: !v
Falsy(v) == v = Undefined \/ v = EmptyString
\* a ?? b
Coalesce(a, b) == IF a = Undefined THEN b ELSE a

Null == <<>>
Some(r) == <<r>>

ANALYSIS_LENSES == {"General Summary", "Halachic Structure & Process"}
VisualThemes == {"Modern Scholar", "Manuscript"}
supportedTypes == {"audio/mpeg", "audio/mp3", "audio/x-m4a", "audio/mp4"}

\* an analysis the model can answer, with a title and without one
TitledHtml == <<"<h1>", "T", "</h1>", "p">>
PlainHtml == <<"p">>
\* one whose title is set on a line of its own inside the h1 element
MultilineHtml == <<"<h1>", "\n", "T", "\n", "</h1>", "p">>
\* what the user can leave in the editable infographic
EditedHtml == <<"<h1>", "T", "</h1>", "e">>

UntitledAnalysis == <<"Untitled Analysis">>

(* ---------------------------- helpers ---------------------------------- *)
RemoveAt(s, i) == SubSeq(s, 1, i - 1) \o SubSeq(s, i + 1, Len(s))

\* htmlOutput.match(/<h1[^>]*>(.*?)<\/h1>/i): the leftmost <h1>, then the
\* nearest </h1> after it with no line break in between
TitleStarts(html) ==
    { i \in 1..Len(html) :
        /\ html[i] = "<h1>"
        /\ \E j \in (i + 1)..Len(html) :
              /\ html[j] = "</h1>"
              /\ \A k \in (i + 1)..(j - 1) : html[k] # "\n" }

ExtractTitle(html) ==
    IF TitleStarts(html) = {} THEN UntitledAnalysis
    ELSE LET i == CHOOSE x \in TitleStarts(html) :
                     \A y \in TitleStarts(html) : x <= y
             j == CHOOSE x \in (i + 1)..Len(html) :
                     /\ html[x] = "</h1>"
                     /\ \A y \in (i + 1)..(x - 1) : html[y] # "</h1>"
         IN SubSeq(html, i + 1, j - 1)

\* library.map(item => item.id === current.id ? updated : item)
ReplaceById(lib, id, updated) ==
    [k \in 1..Len(lib) |-> IF lib[k].id = id THEN updated ELSE lib[k]]

\* the properties of a LibraryEntry in the order the object literal of
\* lines 220-230 creates them, which is the order JSON.stringify emits
EntryFields ==
    <<"id", "title", "sourceText", "infographicHtml", "analysisLens",
      "customDirectives", "visualTheme", "createdAt", "refinementHistory">>
\* those whose value is a text or undefined
TextFields == {"title", "sourceText", "infographicHtml", "customDirectives"}

\* a writer that also leaves out the empty string
Serializable_NoEmpty(entry, f) ==
    f \in DOMAIN entry /\ ~(f \in TextFields /\ Falsy(entry[f]))

\* JSON.stringify leaves out a property whose value is undefined
Serializable(entry, f) ==
    f \in DOMAIN entry /\ ~(f \in TextFields /\ entry[f] = Undefined)

\* the JSON object written for one entry: its members, name and value
JsonObject(entry) ==
    LET Written(f) == Serializable(entry, f)
        names == SelectSeq(EntryFields, Written)
    IN [i \in 1..Len(names) |-> <<names[i], entry[names[i]]>>]

\* JSON.parse of one object: a property per member; a property the text
\* does not have reads as undefined
ParseObject(members) ==
    [f \in {EntryFields[n] : n \in 1..Len(EntryFields)} |->
        IF \E x \in 1..Len(members) : members[x][1] = f
        THEN LET i == CHOOSE x \in 1..Len(members) : members[x][1] = f
             IN members[i][2]
        ELSE Undefined]

\* JSON.stringify(newLibrary) as stored under 'yedu-library'
Stringify(lib) ==
    [kind |-> "array", items |-> [k \in 1..Len(lib) |-> JsonObject(lib[k])]]

\* the load effect (lines 77-86): getItem throws, returns null, or returns
\* a string; JSON.parse throws on a string that is no JSON text; whatever
\* it returns, an array or not, goes to setLibrary
LoadLibrary(slot) ==
    IF slot.kind = "array"
    THEN [k \in 1..Len(slot.items) |-> ParseObject(slot.items[k])]
    ELSE IF slot.kind = "value" THEN slot.items ELSE <<>>

\* lines 441-442, 467: with no search term the Sidebar maps over the
\* library as it is, and a value that is no array has no map
RenderThrows(slot) == slot.kind = "value"

\* what the last handler step passed to window.alert (<<>>: nothing)
NoAlert == <<>>

(* ---------------------------- initial state ---------------------------- *)
\* an entry saved by an earlier session
StoredEntry ==
    [id |-> -1, title |-> <<"T">>, sourceText |-> <<"a">>,
     infographicHtml |-> TitledHtml,
     analysisLens |-> "General Summary",
     customDirectives |-> EmptyString, visualTheme |-> "Modern Scholar",
     createdAt |-> -1, refinementHistory |-> <<>>]

\* one saved with other choices of lens, directives and theme
StyledEntry ==
    [StoredEntry EXCEPT !.analysisLens = "Halachic Structure & Process",
                        !.customDirectives = <<"d">>,
                        !.visualTheme = "Manuscript"]

\* contents of the 'yedu-library' slot when the page loads
AbsentSlot == [kind |-> "absent", items |-> <<>>]
UnreadableSlot == [kind |-> "unreadable", items |-> <<>>]
GarbageSlot == [kind |-> "garbage", items |-> <<>>]
\* a JSON text that is not an array, such as {} or null
NotAnArray == [object |-> TRUE]
ValueSlot == [kind |-> "value", items |-> NotAnArray]
StoredSlot == Stringify(<<StoredEntry>>)
StyledSlot == Stringify(<<StyledEntry>>)

\* the state after the first render and the load effect (lines 58-86);
\* mounted is false once a render has thrown: no error boundary surrounds
\* App (lines 514-515), so React unmounts the whole tree
Init(E) ==
    /\ view = "welcome"
    /\ isLoading = FALSE
    /\ currentAnalysis = Null
    /\ sourceText = EmptyString
    /\ analysisLens = "General Summary"
    /\ customDirectives = EmptyString
    /\ visualTheme = "Modern Scholar"
    /\ storage \in E.slots
    /\ library = LoadLibrary(storage)
    /\ mounted = ~RenderThrows(storage)
    /\ isRefineModalOpen = FALSE
    /\ refineDirectives = EmptyString
    /\ ops = <<>>
    /\ now = 0
    /\ issued = 0
    /\ alert = NoAlert

(* ---------------------------- rendering -------------------------------- *)
WelcomeRendered == mounted /\ view = "welcome"
InfographicRendered ==
    mounted /\ view = "infographic" /\ currentAnalysis # Null
SidebarRendered == mounted
RefineModalRendered == mounted /\ isRefineModalOpen

(* ---------------------------- saveLibrary ------------------------------ *)
\* a save that gives up when the write fails
saveLibrary_Blocking(newLibrary, writeOk) ==
    IF writeOk
    THEN library' = newLibrary /\ storage' = Stringify(newLibrary)
    ELSE UNCHANGED <<library, storage>>

\* setLibrary(newLibrary); setItem may throw, which is caught and logged
saveLibrary(newLibrary, writeOk) ==
    /\ library' = newLibrary
    /\ storage' = IF writeOk THEN Stringify(newLibrary) ELSE storage

(* ---------------------------- closures --------------------------------- *)
\* The values of the current render that the code after an await reads:
\* library, analysisLens, customDirectives and visualTheme (lines 189,
\* 217-232); currentAnalysis when isRefinement (lines 209-217); sourceText
\* until line 177 has run.  A field the continuation never reads is blank.
Closure(isRefinement, beforeLine177) ==
    [library |-> library,
     currentAnalysis |-> IF isRefinement THEN currentAnalysis ELSE Null,
     sourceText |-> IF beforeLine177 THEN sourceText ELSE EmptyString,
     analysisLens |-> analysisLens,
     customDirectives |-> customDirectives,
     visualTheme |-> visualTheme]

NewOp(handler, pc, fileType, isRefinement, text, directives) ==
    [handler |-> handler, pc |-> pc, fileType |-> fileType,
     transcription |-> Undefined,
     isRefinement |-> isRefinement, textToAnalyze |-> text,
     directives |-> directives,
     c |-> Closure(isRefinement, pc # "generate")]

CanStart == Len(ops) < MaxOps /\ issued < MaxIssued

(* ---------------------------- handleGenerate --------------------------- *)
\* line 177: textOverride ?? (isRefinement ? currentAnalysis?.sourceText : sourceText)
TextToAnalyze(cur, text, isRefinement, textOverride) ==
    Coalesce(textOverride,
             IF isRefinement
             THEN (IF cur = Null THEN Undefined ELSE cur[1].sourceText)
             ELSE text)

\* a guard that lets the empty string through
RejectsText_UndefinedOnly(t) == t = Undefined

\* line 178: the guard in front of the request
RejectsText(t) == Falsy(t)

\* line 187
DirectivesOf(refine, custom, isRefinement) ==
    IF isRefinement THEN refine ELSE custom

\* lines 188-194: what is sent to the model
RequestOf(op) ==
    [task |-> IF op.isRefinement
              THEN "Refine the previous analysis based on the new directive"
              ELSE "Analyze the provided transcript",
     lens |-> op.c.analysisLens,
     directives |-> op.directives,
     theme |-> op.c.visualTheme,
     transcript |-> op.textToAnalyze]

\* a click on "Generate Analysis" (isRefinement = FALSE) or on the modal's
\* "Submit" (isRefinement = TRUE): handleGenerate up to its await
handleGenerate(isRefinement) ==
    /\ IF isRefinement THEN RefineModalRendered ELSE WelcomeRendered
    /\ LET t == TextToAnalyze(currentAnalysis, sourceText, isRefinement,
                              Undefined) IN
       IF RejectsText(t)
       THEN /\ alert' = <<"Please provide some text to analyze.">>
            /\ UNCHANGED <<isLoading, ops, issued>>
       ELSE /\ CanStart
            /\ isLoading' = TRUE
            /\ ops' = Append(ops, NewOp("handleGenerate", "generate", "",
                                        isRefinement, t,
                                        DirectivesOf(refineDirectives,
                                                     customDirectives,
                                                     isRefinement)))
            /\ issued' = issued + 1
            /\ alert' = NoAlert
    /\ UNCHANGED <<view, currentAnalysis, formVars, library,
                   isRefineModalOpen, refineDirectives, storage, now,
                   mounted>>

\* an answer of model.generateContent: it throws, or it carries a text
Threw == [threw |-> TRUE, text |-> Undefined]
Answer(text) == [threw |-> FALSE, text |-> text]

\* a check that takes any defined value for an analysis
InvalidOutput_UndefinedOnly(htmlOutput) == htmlOutput = Undefined

\* line 200: !htmlOutput || typeof htmlOutput !== 'string'
InvalidOutput(htmlOutput) == Falsy(htmlOutput) \/ ~IsString(htmlOutput)

\* lines 210-215
UpdatedAnalysis(cur, htmlOutput, directives) ==
    [cur EXCEPT !.infographicHtml = htmlOutput,
                !.title = ExtractTitle(htmlOutput),
                !.refinementHistory = Append(@, directives)]

\* lines 220-230
NewEntry(op, htmlOutput, id, createdAt) ==
    [id |-> id, title |-> ExtractTitle(htmlOutput),
     sourceText |-> op.textToAnalyze, infographicHtml |-> htmlOutput,
     analysisLens |-> op.c.analysisLens,
     customDirectives |-> op.c.customDirectives,
     visualTheme |-> op.c.visualTheme,
     createdAt |-> createdAt, refinementHistory |-> <<>>]

\* the new entry put behind the others
PrependEntry_Append(newEntry, lib) == lib \o <<newEntry>>

\* line 232: the library handed to saveLibrary after an initial generation
PrependEntry(newEntry, lib) == <<newEntry>> \o lib

\* lines 209-234: the response is a non-empty string
GenerateSucceeds(op, htmlOutput, writeOk, elapsed, later) ==
    IF op.isRefinement /\ op.c.currentAnalysis # Null
    THEN LET cur == op.c.currentAnalysis[1]
             upd == UpdatedAnalysis(cur, htmlOutput, op.directives)
         IN /\ currentAnalysis' = Some(upd)
            /\ saveLibrary(ReplaceById(op.c.library, cur.id, upd), writeOk)
            /\ UNCHANGED <<view, now>>
    ELSE LET id == now + elapsed
             createdAt == id + later
             newEntry == NewEntry(op, htmlOutput, id, createdAt)
         IN /\ createdAt <= MaxClock
            /\ now' = createdAt
            /\ currentAnalysis' = Some(newEntry)
            /\ saveLibrary(PrependEntry(newEntry, op.c.library), writeOk)
            /\ view' = "infographic"

\* lines 235-237: the catch block
GenerateFails(resp) ==
    /\ alert' = IF resp.threw
                THEN <<"An error occurred while analyzing the text.">>
                ELSE <<"The AI model returned an empty response.">>
    /\ UNCHANGED <<view, currentAnalysis, library, storage, now>>

\* handleGenerate from the answer of model.generateContent (line 191) on
GenerateResponse(i, resp, writeOk, elapsed, later) ==
    /\ i \in 1..Len(ops)
    /\ ops[i].pc = "generate"
    /\ IF resp.threw \/ InvalidOutput(resp.text)
       THEN GenerateFails(resp)
       ELSE /\ GenerateSucceeds(ops[i], resp.text, writeOk, elapsed, later)
            /\ alert' = NoAlert
    \* finally
    /\ isLoading' = FALSE
    /\ isRefineModalOpen' = FALSE
    /\ refineDirectives' = EmptyString
    /\ ops' = RemoveAt(ops, i)
    /\ UNCHANGED <<formVars, issued,
                   mounted>>

(* ---------------------------- handleFileSelect ------------------------- *)
\* a check that takes every audio type
SupportedType_AnyAudio(t) == t # "text/plain"

\* line 106
SupportedType(t) == t \in supportedTypes

\* the "change" event of the file input: handleFileSelect up to its await
handleFileSelect(fileType) ==
    /\ WelcomeRendered
    /\ IF ~SupportedType(fileType)
       THEN /\ alert' = <<"Unsupported file type", fileType>>
            /\ UNCHANGED <<isLoading, ops, issued>>
       ELSE /\ CanStart
            /\ isLoading' = TRUE
            /\ ops' = Append(ops, NewOp("handleFileSelect", "read", fileType,
                                        FALSE, Undefined, EmptyString))
            /\ issued' = issued + 1
            /\ alert' = NoAlert
    /\ UNCHANGED <<view, currentAnalysis, formVars, library,
                   isRefineModalOpen, refineDirectives, storage, now,
                   mounted>>

\* lines 137-141: the catch block
TranscriptionCatch(i) ==
    /\ alert' = <<"An error occurred during transcription or analysis">>
    /\ isLoading' = FALSE
    /\ ops' = RemoveAt(ops, i)
    /\ UNCHANGED sourceText

\* fileToBase64 settles: the request of line 126 is sent, or the catch runs
FileRead(i, readOk) ==
    /\ i \in 1..Len(ops)
    /\ ops[i].pc = "read"
    /\ IF readOk
       THEN /\ ops' = [ops EXCEPT ![i].pc = "transcribe"]
            /\ alert' = NoAlert
            /\ UNCHANGED <<isLoading, sourceText>>
       ELSE TranscriptionCatch(i)
    /\ UNCHANGED <<view, currentAnalysis, analysisLens, customDirectives,
                   visualTheme, library, isRefineModalOpen, refineDirectives,
                   storage, now, issued,
                   mounted>>

\* lines 131-135: setSourceText(transcription); handleGenerate(false,
\* transcription), called in the closure of the upload, up to its await
ChainGenerate(i, transcription) ==
    LET t == TextToAnalyze(Null, ops[i].c.sourceText, FALSE, transcription) IN
    /\ sourceText' = transcription
    /\ IF RejectsText(t)
       THEN /\ alert' = <<"Please provide some text to analyze.">>
            /\ ops' = RemoveAt(ops, i)
            /\ UNCHANGED isLoading
       ELSE /\ isLoading' = TRUE
            /\ ops' = [ops EXCEPT ![i] =
                         [@ EXCEPT !.pc = "generate",
                                   !.transcription = transcription,
                                   !.textToAnalyze = t,
                                   !.directives =
                                       DirectivesOf(EmptyString,
                                                    ops[i].c.customDirectives,
                                                    FALSE),
                                   !.c.sourceText = EmptyString]]
            /\ alert' = NoAlert

\* handleFileSelect from the answer of model.generateContent (line 126) on
TranscribeResponse(i, resp) ==
    /\ i \in 1..Len(ops)
    /\ ops[i].pc = "transcribe"
    /\ IF resp.threw
       THEN TranscriptionCatch(i)
       ELSE ChainGenerate(i, resp.text)
    /\ UNCHANGED <<view, currentAnalysis, analysisLens, customDirectives,
                   visualTheme, library, isRefineModalOpen, refineDirectives,
                   storage, now, issued,
                   mounted>>

(* ---------------------------- synchronous handlers --------------------- *)
\* a save that writes the edit to the library and not to currentAnalysis
handleSaveChanges_LibraryOnly(updatedHtml, writeOk) ==
    /\ InfographicRendered
    /\ LET cur == currentAnalysis[1]
           upd == [cur EXCEPT !.infographicHtml = updatedHtml]
       IN saveLibrary(ReplaceById(library, cur.id, upd), writeOk)
    /\ alert' = <<"Changes saved to library.">>
    /\ UNCHANGED <<view, isLoading, currentAnalysis, formVars,
                   isRefineModalOpen, refineDirectives, ops, now, issued,
                   mounted>>

\* "Save Edits": innerHTML is what the editable infographic now holds
handleSaveChanges(updatedHtml, writeOk) ==
    /\ InfographicRendered
    /\ LET cur == currentAnalysis[1]
           upd == [cur EXCEPT !.infographicHtml = updatedHtml]
       IN /\ currentAnalysis' = Some(upd)
          /\ saveLibrary(ReplaceById(library, cur.id, upd), writeOk)
    /\ alert' = <<"Changes saved to library.">>
    /\ UNCHANGED <<view, isLoading, formVars, isRefineModalOpen,
                   refineDirectives, ops, now, issued,
                   mounted>>

\* a selection that shows the entry and leaves the form as it is
loadAnalysis_KeepForm(k) ==
    /\ SidebarRendered
    /\ k \in 1..Len(library)
    /\ currentAnalysis' = Some(library[k])
    /\ view' = "infographic"
    /\ alert' = NoAlert
    /\ UNCHANGED <<isLoading, formVars, library, isRefineModalOpen,
                   refineDirectives, storage, ops, now, issued, mounted>>

\* a click on an item of the Sidebar
loadAnalysis(k) ==
    /\ SidebarRendered
    /\ k \in 1..Len(library)
    /\ LET entry == library[k] IN
       /\ currentAnalysis' = Some(entry)
       /\ sourceText' = entry.sourceText
       /\ analysisLens' = entry.analysisLens
       /\ customDirectives' = entry.customDirectives
       /\ visualTheme' = entry.visualTheme
    /\ view' = "infographic"
    /\ alert' = NoAlert
    /\ UNCHANGED <<isLoading, library, isRefineModalOpen, refineDirectives,
                   storage, ops, now, issued,
                   mounted>>

\* a reset that leaves the view on the infographic
startNewAnalysis_KeepView ==
    /\ InfographicRendered
    /\ currentAnalysis' = Null
    /\ sourceText' = EmptyString
    /\ customDirectives' = EmptyString
    /\ alert' = NoAlert
    /\ UNCHANGED <<view, isLoading, analysisLens, visualTheme, library,
                   isRefineModalOpen, refineDirectives, storage, ops, now,
                   issued, mounted>>

\* lines 283-288: the "New Analysis" button of the InfographicScreen
startNewAnalysis ==
    /\ InfographicRendered
    /\ currentAnalysis' = Null
    /\ sourceText' = EmptyString
    /\ customDirectives' = EmptyString
    /\ view' = "welcome"
    /\ alert' = NoAlert
    /\ UNCHANGED <<isLoading, analysisLens, visualTheme, library,
                   isRefineModalOpen, refineDirectives, storage, ops, now,
                   issued,
                   mounted>>

\* onRefine / onClose of the RefineModal
setIsRefineModalOpen(open) ==
    /\ IF open THEN InfographicRendered ELSE RefineModalRendered
    /\ isRefineModalOpen' = open
    /\ alert' = NoAlert
    /\ UNCHANGED <<view, isLoading, currentAnalysis, formVars, library,
                   refineDirectives, storage, ops, now, issued,
                   mounted>>

setRefineDirectives(v) ==
    /\ RefineModalRendered
    /\ refineDirectives' = v
    /\ alert' = NoAlert
    /\ UNCHANGED <<view, isLoading, currentAnalysis, formVars, library,
                   isRefineModalOpen, storage, ops, now, issued,
                   mounted>>

\* the controls of the WelcomeScreen
setSourceText(v) ==
    /\ WelcomeRendered
    /\ sourceText' = v
    /\ alert' = NoAlert
    /\ UNCHANGED <<view, isLoading, currentAnalysis, analysisLens,
                   customDirectives, visualTheme, library, isRefineModalOpen,
                   refineDirectives, storage, ops, now, issued,
                   mounted>>

setAnalysisLens(v) ==
    /\ WelcomeRendered
    /\ analysisLens' = v
    /\ alert' = NoAlert
    /\ UNCHANGED <<view, isLoading, currentAnalysis, sourceText,
                   customDirectives, visualTheme, library, isRefineModalOpen,
                   refineDirectives, storage, ops, now, issued,
                   mounted>>

setCustomDirectives(v) ==
    /\ WelcomeRendered
    /\ customDirectives' = v
    /\ alert' = NoAlert
    /\ UNCHANGED <<view, isLoading, currentAnalysis, sourceText,
                   analysisLens, visualTheme, library, isRefineModalOpen,
                   refineDirectives, storage, ops, now, issued,
                   mounted>>

setVisualTheme(v) ==
    /\ WelcomeRendered
    /\ visualTheme' = v
    /\ alert' = NoAlert
    /\ UNCHANGED <<view, isLoading, currentAnalysis, sourceText,
                   analysisLens, customDirectives, library, isRefineModalOpen,
                   refineDirectives, storage, ops, now, issued,
                   mounted>>

Next(E) ==
    \/ \E r \in BOOLEAN : handleGenerate(r)
    \/ \E i \in 1..MaxOps, resp \in E.analyses, w \in E.writes,
          e \in E.elapsed, d \in E.later : GenerateResponse(i, resp, w, e, d)
    \/ \E t \in E.fileTypes : handleFileSelect(t)
    \/ \E i \in 1..MaxOps, ok \in E.reads : FileRead(i, ok)
    \/ \E i \in 1..MaxOps, resp \in E.transcripts :
          TranscribeResponse(i, resp)
    \/ \E h \in E.edits \cup {currentAnalysis[k].infographicHtml :
                                k \in 1..Len(currentAnalysis)},
          w \in E.writes : handleSaveChanges(h, w)
    \/ \E k \in 1..(MaxIssued + 1) : loadAnalysis(k)
    \/ startNewAnalysis
    \/ \E b \in BOOLEAN : setIsRefineModalOpen(b)
    \/ \E v \in E.refines : setRefineDirectives(v)
    \/ \E v \in E.texts : setSourceText(v)
    \/ \E v \in E.lenses : setAnalysisLens(v)
    \/ \E v \in E.directives : setCustomDirectives(v)
    \/ \E v \in E.themes : setVisualTheme(v)

(* ---------------------------- environments ----------------------------- *)
\* The inputs a behaviour draws from: what the user types and picks, what
\* the remote model answers, whether reads and writes succeed, how much
\* time passes between two readings of the clock, what the storage slot
\* holds at load.
Env ==
    [texts |-> {EmptyString, <<"a">>},
     lenses |-> {"General Summary"},
     themes |-> {"Modern Scholar"},
     directives |-> {EmptyString},
     refines |-> {<<"r">>},
     edits |-> {EditedHtml},
     fileTypes |-> {"audio/mpeg", "text/plain"},
     reads |-> BOOLEAN,
     transcripts |-> {Threw, Answer(Undefined), Answer(EmptyString),
                      Answer(<<"b">>)},
     analyses |-> {Threw, Answer(Undefined), Answer(NotAString),
                   Answer(EmptyString), Answer(TitledHtml)},
     writes |-> {TRUE},
     elapsed |-> {0, 1},
     later |-> {0},
     slots |-> {AbsentSlot, GarbageSlot, StoredSlot}]

Spec == Init(Env) /\ [][Next(Env)]_vars

\* the storage write of saveLibrary may fail
EnvStorage == [Env EXCEPT !.writes = BOOLEAN]

SpecStorage == Init(EnvStorage) /\ [][Next(EnvStorage)]_vars

\* every file type the file input can hand over
EnvFiles ==
    [Env EXCEPT !.fileTypes = supportedTypes \cup {"text/plain", "audio/wav"},
                !.slots = {AbsentSlot}]

SpecFiles == Init(EnvFiles) /\ [][Next(EnvFiles)]_vars

\* every choice of the form, and a storage write that may fail
EnvForm ==
    [Env EXCEPT !.lenses = ANALYSIS_LENSES,
                !.themes = VisualThemes,
                !.directives = {EmptyString, <<"d">>},
                !.writes = BOOLEAN,
                !.texts = {<<"a">>},
                !.fileTypes = {"audio/mpeg"},
                !.edits = {},
                !.reads = {TRUE},
                !.transcripts = {Answer(<<"b">>)},
                !.analyses = {Threw, Answer(TitledHtml)},
                !.elapsed = {1},
                !.slots = {AbsentSlot}]

SpecForm == Init(EnvForm) /\ [][Next(EnvForm)]_vars

\* time passes between the two readings of the clock of lines 221 and 229
EnvClock ==
    [Env EXCEPT !.later = {0, 1},
                !.texts = {<<"a">>},
                !.fileTypes = {"audio/mpeg"},
                !.reads = {TRUE},
                !.transcripts = {Answer(<<"b">>)},
                !.analyses = {Threw, Answer(TitledHtml)},
                !.slots = {AbsentSlot, StoredSlot}]

SpecClock == Init(EnvClock) /\ [][Next(EnvClock)]_vars

\* everything the 'yedu-library' slot can hold when the page loads
EnvLoad ==
    [Env EXCEPT !.slots = {AbsentSlot, UnreadableSlot, GarbageSlot,
                           ValueSlot, StoredSlot},
                !.texts = {<<"a">>},
                !.fileTypes = {"audio/mpeg"},
                !.reads = {TRUE},
                !.transcripts = {Answer(<<"b">>)},
                !.analyses = {Threw, Answer(TitledHtml)},
                !.elapsed = {1}]

SpecLoad == Init(EnvLoad) /\ [][Next(EnvLoad)]_vars

\* the analyses the model can answer: titled, untitled, titled over lines
EnvTitles ==
    [Env EXCEPT !.analyses = {Answer(TitledHtml), Answer(PlainHtml),
                              Answer(MultilineHtml)},
                !.texts = {<<"a">>},
                !.fileTypes = {"audio/mpeg"},
                !.reads = {TRUE},
                !.transcripts = {Answer(<<"b">>)},
                !.elapsed = {1},
                !.slots = {AbsentSlot}]

SpecTitles == Init(EnvTitles) /\ [][Next(EnvTitles)]_vars

(* ---------------------------- properties ------------------------------- *)
RequestOutstanding(op) == op.pc \in {"transcribe", "generate"}

NoTextAlert == <<"Please provide some text to analyze.">>
GenerationFailureAlerts ==
    {<<"An error occurred while analyzing the text.">>,
     <<"The AI model returned an empty response.">>}
NotAText == {Undefined, NotAString, EmptyString}
ListedAudioTypes == {"audio/mpeg", "audio/mp3", "audio/x-m4a", "audio/mp4"}

\* C1: a generation or refinement request that fails (the call throws, or
\* the response text is empty or not a string) ends with isLoading cleared
\* and with library, persisted library and currentAnalysis as they were; no
\* entry of the library ever holds the text of a failed response.
C1_FailedGenerationChangesNoRecord ==
    [][ /\ (Len(ops') < Len(ops) /\ alert' \in GenerationFailureAlerts)
             => /\ isLoading' = FALSE
                /\ library' = library
                /\ storage' = storage
                /\ currentAnalysis' = currentAnalysis
        /\ \A k \in 1..Len(library') :
              library'[k].infographicHtml \notin NotAText ]_vars

\* a refinement of an entry of a non-empty library has just failed
C1_Witness ==
    /\ alert \in GenerationFailureAlerts
    /\ ~isLoading
    /\ library # <<>>
    /\ currentAnalysis # Null
    /\ ops = <<>>

\* C2: no step removes a record id from the library.
C2_NoRecordRemoved ==
    [][ \A k \in 1..Len(library) :
           \E j \in 1..Len(library') : library'[j].id = library[k].id ]_vars

\* C3: at most one remote request is outstanding.
C3_AtMostOneRequest ==
    Cardinality({i \in 1..Len(ops) : RequestOutstanding(ops[i])}) <= 1

\* C4: every operation returns to Idle; in a finite run: once no handler
\* is left in flight, isLoading is false.
C4_IdleWhenNothingInFlight == (ops = <<>>) => (isLoading = FALSE)

\* C5: handleFileSelect goes on to transcription exactly for the four
\* audio types; for any other type it alerts and changes nothing else.
C5_OnlyListedAudioIsTranscribed ==
    [][ /\ \A i \in 1..Len(ops') :
              ops'[i].handler = "handleFileSelect"
                 => ops'[i].fileType \in ListedAudioTypes
        /\ (Len(alert') = 2 /\ alert'[1] = "Unsupported file type")
             => /\ alert'[2] \notin ListedAudioTypes
                /\ UNCHANGED <<view, isLoading, currentAnalysis, formVars,
                               library, isRefineModalOpen, refineDirectives,
                               storage, ops, now, issued>> ]_vars

\* a text file was rejected while an audio upload is being transcribed
C5_Witness ==
    /\ alert = <<"Unsupported file type", "text/plain">>
    /\ \E i \in 1..Len(ops) :
          ops[i].pc = "transcribe" /\ ops[i].fileType = "audio/mp4"

\* C6: generate with an empty source text, or refine with no current
\* record, alerts, sends no request and changes nothing else.
C6_EmptyInputIsRejected ==
    [][ /\ (alert' = NoTextAlert /\ Len(ops') = Len(ops))
             => UNCHANGED <<view, isLoading, currentAnalysis, formVars,
                            library, isRefineModalOpen, refineDirectives,
                            storage, ops, now, issued>>
        /\ \A i \in 1..Len(ops') :
              ops'[i].pc = "generate"
                 => /\ ops'[i].textToAnalyze \notin {Undefined, EmptyString}
                    /\ ops'[i].isRefinement
                          => ops'[i].c.currentAnalysis # Null ]_vars

\* Submit was pressed in the refine modal with no current record
C6_Witness ==
    /\ alert = NoTextAlert
    /\ isRefineModalOpen
    /\ currentAnalysis = Null
    /\ view = "welcome"
    /\ sourceText = EmptyString
    /\ ops = <<>>

\* C7: from the upload trigger to the end of the chained generation
\* isLoading is never false; here, while the generation chained to a
\* successful transcription is outstanding.
C7_BusyThroughoutUpload ==
    \A i \in 1..Len(ops) :
       (/\ ops[i].handler = "handleFileSelect"
        /\ ops[i].pc = "generate"
        /\ ops[i].transcription \notin NotAText) => isLoading

\* C8: a transcription response without a text is a hard failure: no
\* generation request is issued from it.
C8_NoGenerationFromFailedTranscription ==
    \A i \in 1..Len(ops) :
       (ops[i].handler = "handleFileSelect" /\ ops[i].pc = "generate")
          => ops[i].transcription \notin NotAText

\* the only handler in flight is an initial generation, and nothing has
\* changed the library since it was triggered
SingleInitialGeneration ==
    /\ Len(ops) = 1
    /\ ops[1].pc = "generate"
    /\ ~ops[1].isRefinement
    /\ library = ops[1].c.library

\* ... and this step is its successful completion
SucceedsAlone == SingleInitialGeneration /\ ops' = <<>> /\ alert' = NoAlert

CreatesOneRecord ==
    /\ Len(library') = Len(library) + 1
    /\ SubSeq(library', 2, Len(library')) = library
    /\ library'[1].refinementHistory = <<>>
    /\ library'[1].sourceText = ops[1].textToAnalyze
    /\ library'[1].analysisLens = ops[1].c.analysisLens
    /\ library'[1].customDirectives = ops[1].c.customDirectives
    /\ library'[1].visualTheme = ops[1].c.visualTheme
    /\ currentAnalysis' = <<library'[1]>>
    /\ view' = "infographic"

\* the storage slot holds the JSON text of lib
Persisted(lib) == Stringify(lib)

\* C9 as stated: a successful initial generation, alone, creates exactly
\* one record in front of the previous library, with the values of the
\* trigger, makes it current, shows it, and the persisted library equals
\* the new library.
C9_CreatesOneRecordAndPersists ==
    [][ SucceedsAlone => (CreatesOneRecord /\ storage' = Persisted(library'))
      ]_vars

\* C9 as amended: the same, and the persisted library equals the new
\* library when the storage write succeeds and is unchanged when it fails.
C9_CreatesOneRecord ==
    [][ SucceedsAlone
          => /\ CreatesOneRecord
             /\ \/ storage' = Persisted(library')
                \/ storage' = storage ]_vars

\* a second record was created in front of the first from a form with
\* other choices, and it was persisted
C9_Witness ==
    /\ ops = <<>>
    /\ Len(library) = 2
    /\ currentAnalysis = <<library[1]>>
    /\ view = "infographic"
    /\ library[1].analysisLens = "Halachic Structure & Process"
    /\ library[1].customDirectives = <<"d">>
    /\ library[1].visualTheme = "Manuscript"
    /\ library[1].sourceText = <<"a">>
    /\ storage = Persisted(library)

\* C10: the sourceText stored under a record id never changes.
C10_SourceTextImmutable ==
    [][ \A k \in 1..Len(library), j \in 1..Len(library') :
           library'[j].id = library[k].id
              => library'[j].sourceText = library[k].sourceText ]_vars

IsPrefix(s, t) == Len(s) <= Len(t) /\ SubSeq(t, 1, Len(s)) = s

\* this step is the successful completion of the refinement ops[i]
RefinementSucceeds(i) ==
    /\ i \in 1..Len(ops)
    /\ ops[i].pc = "generate"
    /\ ops[i].isRefinement
    /\ ops[i].c.currentAnalysis # Null
    /\ ops' = RemoveAt(ops, i)
    /\ alert' = NoAlert

\* C11: refinementHistory is append-only: in every step each record's old
\* history is a prefix of its new one, and a successful refinement extends
\* the history of its record by exactly the directive submitted with it.
C11_HistoryAppendOnly ==
    [][ /\ \A k \in 1..Len(library), j \in 1..Len(library') :
              library'[j].id = library[k].id
                 => IsPrefix(library[k].refinementHistory,
                             library'[j].refinementHistory)
        /\ \A i \in 1..Len(ops) :
              RefinementSucceeds(i)
                 => \A k \in 1..Len(library), j \in 1..Len(library') :
                       (/\ library[k].id = ops[i].c.currentAnalysis[1].id
                        /\ library'[j].id = library[k].id)
                          => library'[j].refinementHistory
                               = Append(library[k].refinementHistory,
                                        ops[i].directives) ]_vars

\* createdAt never increases along the list
MostRecentFirst(lib) ==
    \A k \in 1..Len(lib), l \in 1..Len(lib) :
       k < l => lib[k].createdAt >= lib[l].createdAt

\* this step is the successful completion of the initial generation ops[i]
InitialGenerationSucceeds(i) ==
    /\ i \in 1..Len(ops)
    /\ ops[i].pc = "generate"
    /\ ~ops[i].isRefinement
    /\ ops' = RemoveAt(ops, i)
    /\ alert' = NoAlert

ManualEditSaved == alert' = <<"Changes saved to library.">>

\* no two records with different ids have changed places
SameOrder(old, new) ==
    \A k \in 1..Len(old), l \in 1..Len(old) :
       (k < l /\ old[k].id # old[l].id)
          => ~\E j \in 1..Len(new), m \in 1..Len(new) :
                 /\ j < m
                 /\ new[j].id = old[l].id
                 /\ new[m].id = old[k].id

\* C12: the library is ordered most-recently-created first in every state
\* (createdAt does not increase along the list); after a successful
\* initial generation its first element is the record just created; a
\* refinement or a manual edit leaves the records in the order they had.
C12_MostRecentFirst ==
    /\ []MostRecentFirst(library)
    /\ [][ /\ (\E i \in 1..Len(ops) : InitialGenerationSucceeds(i))
                => /\ library'[1] = currentAnalysis'[1]
                   /\ library'[1].createdAt = now'
                   /\ library'[1].id >= now
                   /\ library'[1].refinementHistory = <<>>
           /\ ((\E i \in 1..Len(ops) : RefinementSucceeds(i))
                 \/ ManualEditSaved)
                => SameOrder(library, library') ]_vars

\* a record created after the stored one stands in front of it; it was
\* edited by hand, and the stored one was refined afterwards
C12_Witness ==
    /\ Len(library) = 2
    /\ library[1].createdAt > library[1].id
    /\ library[1].id > library[2].createdAt
    /\ library[1].infographicHtml = EditedHtml
    /\ library[2].refinementHistory # <<>>
    /\ ops = <<>>

\* C13: no two entries of the library carry the same id.
C13_IdsUnique ==
    \A k \in 1..Len(library), l \in 1..Len(library) :
       library[k].id = library[l].id => k = l

\* C14: a manual edit save sends no request and changes only the
\* infographicHtml of the current record: its other fields and every other
\* entry of the library are unchanged; saving the HTML already stored
\* changes nothing, so the same edit applied twice is the edit applied once.
C14_ManualEditChangesOnlyHtml ==
    [][ ManualEditSaved
          => LET cur == currentAnalysis[1]
                 html == currentAnalysis'[1].infographicHtml
             IN /\ UNCHANGED <<ops, issued, isLoading>>
                /\ currentAnalysis' = <<[cur EXCEPT !.infographicHtml = html]>>
                /\ \E k \in 1..Len(library) :
                      /\ library[k] = cur
                      /\ library' = [library EXCEPT
                                       ![k].infographicHtml = html]
                /\ html = cur.infographicHtml
                     => UNCHANGED <<library, currentAnalysis>> ]_vars

\* C15: loading the library at start-up never crashes the application:
\* the application stays mounted, and as long as the storage slot holds
\* something that is not an array of records the library is empty.
C15_LoadNeverCrashes ==
    mounted /\ (storage.kind # "array" => library = <<>>)

\* this step is a successful operation whose storage write failed
WriteFailed ==
    /\ \/ \E i \in 1..Len(ops) : InitialGenerationSucceeds(i)
       \/ \E i \in 1..Len(ops) : RefinementSucceeds(i)
       \/ ManualEditSaved
    /\ storage' # Persisted(library')

\* C16: a storage write failure does not block: the operation still ends
\* as a success with its result in the in-memory library and in
\* currentAnalysis, the busy flag of a generation or refinement is
\* cleared, and only the persisted library keeps its previous content.
C16_WriteFailureDoesNotBlock ==
    [][ WriteFailed
          => /\ storage' = storage
             /\ \E k \in 1..Len(library') : library'[k] = currentAnalysis'[1]
             /\ \A i \in 1..Len(ops) :
                   InitialGenerationSucceeds(i)
                      => /\ library'
                             = <<currentAnalysis'[1]>> \o ops[i].c.library
                         /\ library'[1].sourceText = ops[i].textToAnalyze
                         /\ view' = "infographic"
                         /\ isLoading' = FALSE
             /\ \A i \in 1..Len(ops) :
                   RefinementSucceeds(i)
                      => /\ Len(library') = Len(ops[i].c.library)
                         /\ currentAnalysis'[1].refinementHistory
                              = Append(ops[i].c.currentAnalysis[1]
                                          .refinementHistory,
                                       ops[i].directives)
                         /\ isLoading' = FALSE
             /\ ManualEditSaved
                  => /\ Len(library') = Len(library)
                     /\ currentAnalysis'[1].id = currentAnalysis[1].id ]_vars

\* a record was created and then refined, and neither write reached the
\* storage slot
C16_Witness ==
    /\ storage = AbsentSlot
    /\ Len(library) = 1
    /\ library[1].refinementHistory # <<>>
    /\ library[1].infographicHtml = TitledHtml
    /\ library[1].id >= 0
    /\ currentAnalysis = <<library[1]>>
    /\ ~isLoading
    /\ ops = <<>>

\* this step has called saveLibrary
Saved ==
    \/ \E i \in 1..Len(ops) : InitialGenerationSucceeds(i)
    \/ \E i \in 1..Len(ops) : RefinementSucceeds(i)
    \/ ManualEditSaved

\* C17: after every saveLibrary(records) whose write succeeds, the storage
\* slot holds an array, and what the load on mount makes of it is the
\* in-memory library: the same entries with the same field values in the
\* same order, and it renders.
C17_SaveLoadRoundTrip ==
    [][ Saved => /\ storage'.kind = "array"
                 /\ Len(storage'.items) = Len(library')
                 /\ LoadLibrary(storage') = library'
                 /\ ~RenderThrows(storage') ]_vars

\* a library of a refined stored entry behind a new one has been saved
C17_Witness ==
    /\ Len(library) = 2
    /\ library[2].refinementHistory # <<>>
    /\ library[1].refinementHistory = <<>>
    /\ library[1].customDirectives = EmptyString
    /\ storage = Stringify(library)
    /\ LoadLibrary(storage) = library
    /\ ops = <<>>

\* C18: a successful refinement replaces exactly the library entry whose
\* id was current when it was triggered: that entry gets the new
\* infographicHtml and title and keeps id, sourceText, analysisLens,
\* customDirectives, visualTheme and createdAt; every other entry, the
\* length and the order of the library are unchanged.
C18_RefinementReplacesOneEntry ==
    [][ \A i \in 1..Len(ops) :
           RefinementSucceeds(i)
              => LET id == ops[i].c.currentAnalysis[1].id
                     new == currentAnalysis'[1]
                 IN /\ Len(library') = Len(library)
                    /\ Cardinality({k \in 1..Len(library) :
                                      library[k].id = id}) = 1
                    /\ \A k \in 1..Len(library) :
                          IF library[k].id = id
                          THEN /\ library'[k] = new
                               /\ new.id = id
                               /\ new.sourceText = library[k].sourceText
                               /\ new.analysisLens = library[k].analysisLens
                               /\ new.customDirectives
                                    = library[k].customDirectives
                               /\ new.visualTheme = library[k].visualTheme
                               /\ new.createdAt = library[k].createdAt
                          ELSE library'[k] = library[k] ]_vars

\* this step is a selection in the library: no handler starts or ends,
\* nothing is alerted, and an entry is shown that was not shown before
Selected ==
    /\ ops' = ops
    /\ alert' = NoAlert
    /\ currentAnalysis' # Null
    /\ \/ currentAnalysis' # currentAnalysis
       \/ view = "welcome" /\ view' = "infographic"

\* C19: selecting an entry of the library makes it currentAnalysis, sets
\* the form's sourceText, analysisLens, customDirectives and visualTheme to
\* the entry's values, shows the infographic, and leaves the library, the
\* persisted library and the busy flag as they were; it sends no request.
C19_LoadAnalysisFrame ==
    [][ Selected
          => /\ \E k \in 1..Len(library) :
                   /\ currentAnalysis' = <<library[k]>>
                   /\ sourceText' = library[k].sourceText
                   /\ analysisLens' = library[k].analysisLens
                   /\ customDirectives' = library[k].customDirectives
                   /\ visualTheme' = library[k].visualTheme
             /\ view' = "infographic"
             /\ UNCHANGED <<library, storage, isLoading, issued>> ]_vars

\* the older of two records made with different choices was selected
\* while the form stood on the choices of the newer one
C19_Witness ==
    /\ Len(library) = 2
    /\ currentAnalysis = <<library[2]>>
    /\ view = "infographic"
    /\ library[1].analysisLens = "General Summary"
    /\ library[1].visualTheme = "Modern Scholar"
    /\ library[1].customDirectives = EmptyString
    /\ analysisLens = "Halachic Structure & Process"
    /\ visualTheme = "Manuscript"
    /\ customDirectives = <<"d">>
    /\ analysisLens = library[2].analysisLens
    /\ visualTheme = library[2].visualTheme
    /\ customDirectives = library[2].customDirectives
    /\ sourceText = library[2].sourceText
    /\ ops = <<>>

\* the h1 elements of a document: an opening tag and the first closing
\* tag after it
H1Elements(html) ==
    { e \in (1..Len(html)) \X (1..Len(html)) :
        /\ e[1] < e[2]
        /\ html[e[1]] = "<h1>"
        /\ html[e[2]] = "</h1>"
        /\ \A k \in (e[1] + 1)..(e[2] - 1) : html[k] # "</h1>" }

\* the content of the first of them
FirstH1Content(html) ==
    LET e == CHOOSE x \in H1Elements(html) :
                \A y \in H1Elements(html) : x[1] <= y[1]
    IN SubSeq(html, e[1] + 1, e[2] - 1)

\* C20: after a successful generation or refinement the title of the
\* record is the content of the first h1 element of the response, or
\* 'Untitled Analysis' when the response has none; a manual edit save
\* leaves the title as it was.
C20_TitleIsFirstH1 ==
    [][ /\ (\E i \in 1..Len(ops) :
               InitialGenerationSucceeds(i) \/ RefinementSucceeds(i))
             => LET html == currentAnalysis'[1].infographicHtml
                IN currentAnalysis'[1].title
                     = IF H1Elements(html) = {} THEN UntitledAnalysis
                       ELSE FirstH1Content(html)
        /\ ManualEditSaved
             => currentAnalysis'[1].title = currentAnalysis[1].title ]_vars

\* C21: whenever the view is 'infographic' there is a current record:
\* a step that clears currentAnalysis sets the view to 'welcome', and a
\* step that ends with the view 'infographic' ends with a current record.
C21_InfographicHasRecord ==
    [][ /\ (currentAnalysis # Null /\ currentAnalysis' = Null)
             => view' = "welcome"
        /\ view' = "infographic" => currentAnalysis' # Null ]_vars

\* a generation completed after the user had gone back to the form and
\* emptied it: the view is 'infographic' and shows the new record
C21_Witness ==
    /\ view = "infographic"
    /\ currentAnalysis # Null
    /\ currentAnalysis[1].id >= 0
    /\ Len(library) = 2
    /\ sourceText = EmptyString
    /\ ops = <<>>

\* C22: currentAnalysis mirrors the library: whenever there is a current
\* record, the library has an entry with its id that equals it field for
\* field.
C22_CurrentMirrorsLibrary ==
    currentAnalysis # Null
       => \E k \in 1..Len(library) :
             /\ library[k].id = currentAnalysis[1].id
             /\ library[k] = currentAnalysis[1]

\* the current record is the stored one, refined and then edited by hand,
\* while another handler is still in flight
C22_Witness ==
    /\ Len(library) = 1
    /\ currentAnalysis = <<library[1]>>
    /\ library[1].refinementHistory # <<>>
    /\ library[1].infographicHtml = EditedHtml
    /\ ops # <<>>

\* C23: the busy flag covers every outstanding request: while a
\* transcription or generation request is outstanding, isLoading is true.
C23_BusyWhileRequestOutstanding ==
    (\E i \in 1..Len(ops) : RequestOutstanding(ops[i])) => isLoading

\* C24: the analysis lens and the visual theme in the prompt of a
\* refinement request are those stored in the record being refined.
C24_RefinementPromptUsesRecordChoices ==
    \A i \in 1..Len(ops) :
       (ops[i].pc = "generate" /\ ops[i].isRefinement)
          => /\ RequestOf(ops[i]).lens
                  = ops[i].c.currentAnalysis[1].analysisLens
             /\ RequestOf(ops[i]).theme
                  = ops[i].c.currentAnalysis[1].visualTheme

====
